---- MODULE Spec2Model ----
(***************************************************************************)
(* Model of pkg/client/client.go (kpt): the dynamic-client adapter         *)
(* (client.Get, client.Update, client.resourceInterface) and the           *)
(* owning-inventory annotation helper (UpdateAnnotation, getOriginalObj).  *)
(*                                                                         *)
(* An object (unstructured.Unstructured) is a record                       *)
(*   [kind, spec, hasAnn, ann]                                             *)
(* kind  : the "kind" field ("" when the field is missing),                *)
(* spec  : everything of the object outside metadata.annotations,          *)
(* hasAnn: whether metadata.annotations exists,                            *)
(* ann   : the annotations, a function from keys to string values.         *)
(*                                                                         *)
(* A string value is a record: [str |-> s] is a text that is not a JSON    *)
(* object (identifiers, ordinary values, malformed JSON), and              *)
(* [fmt |-> f, doc |-> d] is the JSON text of object d laid out as f       *)
(* ("pretty" as a user wrote it, "compact" as the JSON encoder writes it). *)
(***************************************************************************)
EXTENDS Integers, Sequences, FiniteSets, TLC

VARIABLES obj, pre, last, prev, acc, prevAcc

vars == <<obj, pre, last, prev, acc, prevAcc>>

(* ------------------------------ bounds -------------------------------- *)

\* number of distinct non-empty inventory IDs callers and objects use
MaxIDs == 2

IDPool == <<"inv-1", "inv-2", "inv-3", "inv-9">>

IDs == {""} \cup {IDPool[i] : i \in 1..MaxIDs}

\* the values an ordinary (non-bookkeeping) annotation takes
Vals == {"x"}

(* ------------------------- strings and objects ------------------------ *)

Str(s) == [str |-> s]

IsJSONText(t) == "doc" \in DOMAIN t

\* client.go:68
key == "config.k8s.io/owning-inventory"

\* v1.LastAppliedConfigAnnotation, client.go:93
LastAppliedConfigAnnotation == "kubectl.kubernetes.io/last-applied-configuration"

\* an annotation key only the live object carries, and one only a snapshot carries
LiveOnlyKey == "live.example.com/note"

SnapOnlyKey == "snap.example.com/note"

EmptyMap == [k \in {} |-> Str("")]

\* map m with key k set to value v (Go: m[k] = v)
MapSet(m, k, v) == [x \in DOMAIN m \cup {k} |-> IF x = k THEN v ELSE m[x]]

\* map m without key k (Go: delete(m, k))
MapDelete(m, k) == [x \in DOMAIN m \ {k} |-> m[x]]

\* unstructured GetAnnotations: a copy of the map, nil when the field is absent
GetAnnotations(o) == [isNil |-> ~o.hasAnn, m |-> IF o.hasAnn THEN o.ann ELSE EmptyMap]

\* unstructured SetAnnotations with a non-nil map: replaces the whole map
SetAnnotations(o, m) == [o EXCEPT !.hasAnn = TRUE, !.ann = m]

\* unstructured SetAnnotations(nil): removes metadata.annotations
RemoveAnnotations(o) == [o EXCEPT !.hasAnn = FALSE, !.ann = EmptyMap]

\* json.Unmarshal([]byte(text), &unstructured.Unstructured{}):
\* fails on text that is no JSON object and on an object without "kind";
\* the layout of the text is not part of the decoded object
JSONUnmarshal(t) ==
    IF ~IsJSONText(t) THEN [ok |-> FALSE, u |-> [kind |-> "", spec |-> "", hasAnn |-> FALSE, ann |-> EmptyMap]]
    ELSE IF t.doc.kind = "" THEN [ok |-> FALSE, u |-> t.doc]
    ELSE [ok |-> TRUE, u |-> t.doc]

\* runtime.Encode(scheme.DefaultJSONEncoder(), u): the encoder's own layout
JSONEncode(u) == [fmt |-> "compact", doc |-> u]

\* client.go:99-101 left out: the decoding error is not looked at
getOriginalObjIgnoringErr(o) ==
    LET annotations == GetAnnotations(o)
    IN  IF LastAppliedConfigAnnotation \notin DOMAIN annotations.m
        THEN [isNil |-> TRUE, u |-> o]
        ELSE [isNil |-> FALSE, u |-> JSONUnmarshal(annotations.m[LastAppliedConfigAnnotation]).u]

\* client.go:91-103
getOriginalObj(o) ==
    LET annotations == GetAnnotations(o)
    IN  IF LastAppliedConfigAnnotation \notin DOMAIN annotations.m
        THEN [isNil |-> TRUE, u |-> o]
        ELSE LET r == JSONUnmarshal(annotations.m[LastAppliedConfigAnnotation])
             IN  IF ~r.ok THEN [isNil |-> TRUE, u |-> o]
                 ELSE [isNil |-> FALSE, u |-> r.u]

\* util.CreateOrUpdateAnnotation(false, u, encoder), called at client.go:81.
\* Without a last-applied annotation on u it does nothing.  Otherwise it
\* takes the annotation off u, encodes u, and stores the encoding as u's
\* last-applied annotation; when the encoder fails (encOK = FALSE) it
\* returns the error and u is left without the annotation.
CreateOrUpdateAnnotation(u, encOK) ==
    LET annots == GetAnnotations(u).m
    IN  IF LastAppliedConfigAnnotation \notin DOMAIN annots
        THEN [u |-> u, err |-> "nil"]
        ELSE LET stripped == SetAnnotations(u, MapDelete(annots, LastAppliedConfigAnnotation))
             IN  IF ~encOK
                 THEN [u |-> stripped, err |-> "encode-error"]
                 ELSE [u |-> SetAnnotations(stripped,
                                MapSet(stripped.ann, LastAppliedConfigAnnotation, JSONEncode(stripped))),
                       err |-> "nil"]

\* the comparison of client.go:74 inverted (val != oldID)
TransferableInverted(annotations, oldID) ==
    key \notin DOMAIN annotations \/ annotations[key] # Str(oldID)

\* client.go:74, the condition under which ownership is written
Transferable(annotations, oldID) ==
    key \notin DOMAIN annotations \/ annotations[key] = Str(oldID)

\* client.go:85 left out: the copy of the annotations is never stored
WriteOwnershipNoStore(o, annotations, encOK) ==
    LET orig == getOriginalObj(o)
    IN  IF ~orig.isNil
        THEN LET u0 == SetAnnotations(orig.u, annotations)
                 r  == CreateOrUpdateAnnotation(u0, encOK)
                 back == GetAnnotations(r.u)
             IN  [obj |-> IF back.isNil THEN RemoveAnnotations(o) ELSE SetAnnotations(o, back.m),
                  changed |-> TRUE, err |-> r.err]
        ELSE [obj |-> o, changed |-> TRUE, err |-> "nil"]

\* client.go:80 replaced by the assignment of the ownership key alone on
\* the snapshot's own annotations
WriteOwnershipKeyOnly(o, annotations, encOK) ==
    LET orig == getOriginalObj(o)
    IN  IF ~orig.isNil
        THEN LET u0 == SetAnnotations(orig.u, MapSet(GetAnnotations(orig.u).m, key, annotations[key]))
                 r  == CreateOrUpdateAnnotation(u0, encOK)
                 back == GetAnnotations(r.u)
             IN  [obj |-> IF back.isNil THEN RemoveAnnotations(o) ELSE SetAnnotations(o, back.m),
                  changed |-> TRUE, err |-> r.err]
        ELSE [obj |-> SetAnnotations(o, annotations), changed |-> TRUE, err |-> "nil"]

\* client.go:82 skipped when the encoder fails: the live object is left as it was
WriteOwnershipRollback(o, annotations, encOK) ==
    LET orig == getOriginalObj(o)
    IN  IF ~orig.isNil
        THEN LET u0 == SetAnnotations(orig.u, annotations)
                 r  == CreateOrUpdateAnnotation(u0, encOK)
                 back == GetAnnotations(r.u)
             IN  [obj |-> IF r.err # "nil" THEN o
                          ELSE IF back.isNil THEN RemoveAnnotations(o) ELSE SetAnnotations(o, back.m),
                  changed |-> TRUE, err |-> r.err]
        ELSE [obj |-> SetAnnotations(o, annotations), changed |-> TRUE, err |-> "nil"]

\* client.go:78-86, the body of the branch that writes ownership;
\* annotations already holds annotations[key] = newID
WriteOwnership(o, annotations, encOK) ==
    LET orig == getOriginalObj(o)
    IN  IF ~orig.isNil
        THEN LET u0 == SetAnnotations(orig.u, annotations)
                 r  == CreateOrUpdateAnnotation(u0, encOK)
                 back == GetAnnotations(r.u)
             IN  [obj |-> IF back.isNil THEN RemoveAnnotations(o) ELSE SetAnnotations(o, back.m),
                  changed |-> TRUE, err |-> r.err]
        ELSE [obj |-> SetAnnotations(o, annotations), changed |-> TRUE, err |-> "nil"]

\* client.go:67-89, the function's result (object after the call, changed, err)
UpdateAnnotationResult(o, oldID, newID, encOK) ==
    LET got == GetAnnotations(o)
        annotations == IF got.isNil THEN EmptyMap ELSE got.m
    IN  IF Transferable(annotations, oldID)
        THEN WriteOwnership(o, MapSet(annotations, key, Str(newID)), encOK)
        ELSE [obj |-> o, changed |-> FALSE, err |-> "nil"]


(* ------------------------- the dynamic client ------------------------- *)

\* number of distinct object names callers ask for
MaxNames == 1

NamePool == <<"cm-a", "cm-b", "cm-c">>

Names == {NamePool[i] : i \in 1..MaxNames}

Namespaces == {"default", "kube-system"}

GroupKinds == {"ConfigMap", "Deployment.apps"}

\* object.ObjMetadata
ObjMetadatas == [GroupKind : GroupKinds, Namespace : Namespaces, Name : Names]

\* the resource a successful RESTMapping names for a group-kind
MappingResource(gk) == IF gk = "ConfigMap" THEN "v1/configmaps" ELSE "apps/v1/deployments"

\* what the mapping service and the API server answer to one call
MapErrs == {"nil", "no-match"}

RemoteErrs == {"nil", "conflict", "not-found"}

NilObj == [kind |-> "", spec |-> "nil", hasAnn |-> FALSE, ann |-> EmptyMap]

RemoteObjects ==
    { [kind |-> "ConfigMap", spec |-> "live", hasAnn |-> FALSE, ann |-> EmptyMap],
      [kind |-> "ConfigMap", spec |-> "live", hasAnn |-> TRUE, ann |-> MapSet(EmptyMap, key, Str("inv-1"))] }

\* the representation callers pass to Update
UpdateReps ==
    { [kind |-> "ConfigMap", spec |-> "live", hasAnn |-> TRUE, ann |-> MapSet(EmptyMap, key, Str("inv-2"))] }

\* *metav1.UpdateOptions: nil, or a pointer to a value
ZeroUpdateOptions == [DryRun |-> <<>>, FieldManager |-> ""]

NilOptions == [isNil |-> TRUE, v |-> [DryRun |-> <<>>, FieldManager |-> "<nil pointer>"]]

OptionsPtr(v) == [isNil |-> FALSE, v |-> v]

UpdateOptionsValues == {ZeroUpdateOptions, [DryRun |-> <<"All">>, FieldManager |-> "kpt"]}

OptionsArgs == {NilOptions} \cup {OptionsPtr(v) : v \in UpdateOptionsValues}

\* metav1.GetOptions{}
ZeroGetOptions == [ResourceVersion |-> ""]

\* client.go:55-62: one RESTMapping call; on success the namespaced handle
resourceInterface(meta, mapErr) ==
    [trace |-> << [call |-> "RESTMapping", groupKind |-> meta.GroupKind] >>,
     err |-> mapErr,
     r |-> [resource |-> IF mapErr = "nil" THEN MappingResource(meta.GroupKind) ELSE "",
            namespace |-> IF mapErr = "nil" THEN meta.Namespace ELSE ""]]

\* client.go:39-41 left out: a nil options pointer is dereferenced
UpdateResultNoDefault(meta, o, options, mapErr, remErr) ==
    LET ri == resourceInterface(meta, mapErr)
    IN  IF ri.err # "nil"
        THEN [trace |-> ri.trace, obj |-> NilObj, err |-> ri.err]
        ELSE IF options.isNil
        THEN [trace |-> ri.trace, obj |-> NilObj, err |-> "panic: nil pointer dereference"]
        ELSE [trace |-> Append(ri.trace, [call |-> "Update", r |-> ri.r, obj |-> o, options |-> options.v]),
              obj |-> NilObj, err |-> remErr]

\* client.go:42 repeated once when the server reports a conflict
UpdateResultRetry(meta, o, options, mapErr, remErr) ==
    LET ri == resourceInterface(meta, mapErr)
    IN  IF ri.err # "nil"
        THEN [trace |-> ri.trace, obj |-> NilObj, err |-> ri.err]
        ELSE LET opts == IF options.isNil THEN ZeroUpdateOptions ELSE options.v
                 c == [call |-> "Update", r |-> ri.r, obj |-> o, options |-> opts]
             IN  [trace |-> IF remErr = "conflict" THEN ri.trace \o <<c, c>> ELSE Append(ri.trace, c),
                  obj |-> NilObj, err |-> remErr]

\* client.go:34-44: external calls made and the error returned
UpdateResult(meta, o, options, mapErr, remErr) ==
    LET ri == resourceInterface(meta, mapErr)
    IN  IF ri.err # "nil"
        THEN [trace |-> ri.trace, obj |-> NilObj, err |-> ri.err]
        ELSE LET opts == IF options.isNil THEN ZeroUpdateOptions ELSE options.v
             IN  [trace |-> Append(ri.trace, [call |-> "Update", r |-> ri.r, obj |-> o, options |-> opts]),
                  obj |-> NilObj, err |-> remErr]

\* client.go:47-53: external calls made, the object and the error returned
GetResult(meta, mapErr, remErr, remObj) ==
    LET ri == resourceInterface(meta, mapErr)
    IN  IF ri.err # "nil"
        THEN [trace |-> ri.trace, obj |-> NilObj, err |-> ri.err]
        ELSE [trace |-> Append(ri.trace, [call |-> "Get", r |-> ri.r, name |-> meta.Name,
                                          options |-> ZeroGetOptions]),
              obj |-> remObj, err |-> remErr]

(* ------------------------- the objects callers hold ------------------- *)

\* annotation maps built from optional entries
MapsOver(ownerVals, otherKey, otherVals, laVals) ==
    { [k \in ({key : x \in {1} \cap (IF ow = "none" THEN {} ELSE {1})}
               \cup {otherKey : x \in {1} \cap (IF ot = "none" THEN {} ELSE {1})}
               \cup {LastAppliedConfigAnnotation : x \in {1} \cap (IF la = Str("none") THEN {} ELSE {1})})
        |-> IF k = key THEN Str(ow)
            ELSE IF k = otherKey THEN Str(ot)
            ELSE la] :
        ow \in ownerVals \cup {"none"}, ot \in otherVals \cup {"none"}, la \in laVals \cup {Str("none")} }

\* snapshots stored under the last-applied key: with and without "kind",
\* with no annotations field, with {} and with annotations
SnapshotDocs ==
    { [kind |-> kd, spec |-> "desired", hasAnn |-> FALSE, ann |-> EmptyMap] : kd \in {"", "ConfigMap"} }
    \cup { [kind |-> kd, spec |-> "desired", hasAnn |-> TRUE, ann |-> m] :
             kd \in {"", "ConfigMap"}, m \in MapsOver(IDs, SnapOnlyKey, Vals, {}) }

LastAppliedTexts ==
    {Str("{not json")} \cup { [fmt |-> f, doc |-> d] : f \in {"pretty", "compact"}, d \in SnapshotDocs }

LiveObjects ==
    { [kind |-> "ConfigMap", spec |-> "live", hasAnn |-> FALSE, ann |-> EmptyMap] }
    \cup { [kind |-> "ConfigMap", spec |-> "live", hasAnn |-> TRUE, ann |-> m] :
             m \in MapsOver(IDs, LiveOnlyKey, Vals, LastAppliedTexts) }

NoCall == [called |-> FALSE, oldID |-> "", newID |-> "", encOK |-> TRUE, changed |-> FALSE, err |-> "nil"]

NoAcc == [op |-> "none"]

Init ==
    /\ obj \in LiveObjects
    /\ pre = obj
    /\ last = NoCall
    /\ prev = NoCall
    /\ acc = NoAcc
    /\ prevAcc = NoAcc

\* one call UpdateAnnotation(obj, oldID, newID); encOK is whether the JSON
\* encoder succeeds if the call reaches it
UpdateAnnotation(oldID, newID, encOK) ==
    LET r == UpdateAnnotationResult(obj, oldID, newID, encOK)
    IN  /\ obj' = r.obj
        /\ pre' = obj
        /\ last' = [called |-> TRUE, oldID |-> oldID, newID |-> newID, encOK |-> encOK,
                    changed |-> r.changed, err |-> r.err]
        /\ prev' = last
        /\ UNCHANGED <<acc, prevAcc>>

Next == \E oldID \in IDs, newID \in IDs, encOK \in BOOLEAN : UpdateAnnotation(oldID, newID, encOK)

Spec == Init /\ [][Next]_vars


\* one call uc.Update(ctx, meta, o, options) against an environment that
\* answers the mapping with mapErr and the remote update with remErr
Update(meta, o, options, mapErr, remErr) ==
    LET r == UpdateResult(meta, o, options, mapErr, remErr)
    IN  /\ acc' = [op |-> "Update", meta |-> meta, rep |-> o, options |-> options,
                   mapErr |-> mapErr, remErr |-> remErr, remObj |-> NilObj,
                   trace |-> r.trace, obj |-> r.obj, err |-> r.err]
        /\ prevAcc' = acc
        /\ UNCHANGED <<obj, pre, last, prev>>

\* one call uc.Get(ctx, meta) against an environment that answers the
\* mapping with mapErr and the remote fetch with (remObj, remErr)
Get(meta, mapErr, remErr, remObj) ==
    LET r == GetResult(meta, mapErr, remErr, remObj)
    IN  /\ acc' = [op |-> "Get", meta |-> meta, rep |-> NilObj, options |-> NilOptions,
                   mapErr |-> mapErr, remErr |-> remErr, remObj |-> remObj,
                   trace |-> r.trace, obj |-> r.obj, err |-> r.err]
        /\ prevAcc' = acc
        /\ UNCHANGED <<obj, pre, last, prev>>

ClientInit ==
    /\ obj = [kind |-> "ConfigMap", spec |-> "live", hasAnn |-> FALSE, ann |-> EmptyMap]
    /\ pre = obj
    /\ last = NoCall
    /\ prev = NoCall
    /\ acc = NoAcc
    /\ prevAcc = NoAcc

\* an answer of the environment to one call: the remote side answers only
\* when the mapping succeeded, and hands back an object only without error
Answers ==
    { a \in [mapErr : MapErrs, remErr : RemoteErrs, remObj : RemoteObjects \cup {NilObj}] :
        /\ a.mapErr # "nil" => a.remErr = "nil"
        /\ (a.remObj = NilObj) <=> (a.mapErr # "nil" \/ a.remErr # "nil") }

ClientNext ==
    \/ \E meta \in ObjMetadatas, o \in UpdateReps, options \in OptionsArgs, a \in Answers :
          Update(meta, o, options, a.mapErr, a.remErr)
    \/ \E meta \in ObjMetadatas, a \in Answers : Get(meta, a.mapErr, a.remErr, a.remObj)

ClientSpec == ClientInit /\ [][ClientNext]_vars


(* ------------------------------ claims -------------------------------- *)

HasOwner(o) == o.hasAnn /\ key \in DOMAIN o.ann

OwnerIs(o, id) == HasOwner(o) /\ o.ann[key] = Str(id)

HasLastApplied(o) == o.hasAnn /\ LastAppliedConfigAnnotation \in DOMAIN o.ann

\* the last-applied text of o decodes to an object
Decodable(o) == HasLastApplied(o) /\ JSONUnmarshal(o.ann[LastAppliedConfigAnnotation]).ok

\* the object the last-applied text of o decodes to
SnapshotOf(o) == JSONUnmarshal(o.ann[LastAppliedConfigAnnotation]).u

\* before the last call the ownership annotation was absent or equal to oldID
PreTransferable == ~HasOwner(pre) \/ OwnerIs(pre, last.oldID)

\* the keys of the annotations of o (none without an annotations map)
Keys(o) == IF o.hasAnn THEN DOMAIN o.ann ELSE {}

\* C1: a call made while the ownership annotation is present and differs
\* from oldID returns (false, nil) and leaves the whole object as it was
C1_RefusalLeavesObject ==
    (last.called /\ HasOwner(pre) /\ ~OwnerIs(pre, last.oldID))
        => (~last.changed /\ last.err = "nil" /\ obj = pre)

C1_Witness ==
    /\ last.called /\ OwnerIs(pre, "inv-1") /\ last.oldID = "inv-2" /\ last.newID = "inv-2"
    /\ Decodable(pre) /\ LiveOnlyKey \in Keys(pre)
    /\ ~last.changed /\ obj = pre

\* C2: with the ownership annotation absent (also without an annotations
\* map) or equal to oldID, and no encoder failure, the call returns
\* (true, nil) and the ownership annotation is newID afterwards
C2_TransferSetsOwner ==
    (last.called /\ PreTransferable /\ (last.encOK \/ ~Decodable(pre)))
        => (last.changed /\ last.err = "nil" /\ OwnerIs(obj, last.newID))

C2_Witness ==
    /\ last.called /\ ~pre.hasAnn /\ last.oldID = "" /\ last.newID = "inv-2"
    /\ last.changed /\ last.err = "nil" /\ OwnerIs(obj, "inv-2")

\* C3: after a call that returned (true, nil), the same call (same oldID
\* and newID, newID # oldID) returns (false, nil) and changes nothing
C3_SecondCallRefused ==
    (/\ prev.called /\ prev.changed /\ prev.err = "nil"
     /\ last.called /\ last.oldID = prev.oldID /\ last.newID = prev.newID
     /\ last.newID # last.oldID)
        => (~last.changed /\ last.err = "nil" /\ obj = pre)

C3_Witness ==
    /\ prev.called /\ prev.changed /\ prev.err = "nil"
    /\ last.called /\ last.oldID = prev.oldID /\ last.newID = prev.newID
    /\ last.newID # last.oldID
    /\ Decodable(pre) /\ ~last.changed

\* C4: when the call returns (true, nil) on an object with a decodable
\* snapshot, the live ownership annotation is newID and the rewritten
\* last-applied text decodes to a snapshot whose ownership annotation is newID
C4_SnapshotConsistent ==
    (last.called /\ last.changed /\ last.err = "nil" /\ Decodable(pre))
        => (/\ OwnerIs(obj, last.newID)
            /\ Decodable(obj)
            /\ OwnerIs(SnapshotOf(obj), last.newID))

C4_Witness ==
    /\ last.called /\ last.changed /\ last.err = "nil" /\ Decodable(pre)
    /\ OwnerIs(SnapshotOf(pre), "inv-1") /\ last.newID = "inv-2"
    /\ Decodable(obj) /\ OwnerIs(SnapshotOf(obj), "inv-2")

\* C5: a missing or undecodable last-applied text is no error: a
\* transferable call writes the ownership annotation alone (the text stays
\* as it was) and returns (true, nil)
C5_UndecodableIsNoSnapshot ==
    (last.called /\ PreTransferable /\ ~Decodable(pre))
        => (/\ last.changed /\ last.err = "nil"
            /\ obj.kind = pre.kind /\ obj.spec = pre.spec /\ obj.hasAnn
            /\ obj.ann = [k \in Keys(pre) \cup {key} |->
                            IF k = key THEN Str(last.newID) ELSE pre.ann[k]])

C5_Witness ==
    /\ last.called /\ PreTransferable /\ HasLastApplied(pre) /\ ~Decodable(pre)
    /\ last.changed /\ OwnerIs(obj, last.newID)
    /\ obj.ann[LastAppliedConfigAnnotation] = Str("{not json")

\* C6: with a decodable snapshot, transferable ownership and a failing
\* encoder the call returns (true, err) with the live ownership annotation
\* already newID; an error never comes with changed = false
C6_ChangedWithError ==
    /\ (last.called /\ PreTransferable /\ Decodable(pre) /\ ~last.encOK)
          => (last.changed /\ last.err # "nil" /\ OwnerIs(obj, last.newID))
    /\ (last.called /\ last.err # "nil") => last.changed

C6_Witness ==
    /\ last.called /\ Decodable(pre) /\ OwnerIs(pre, "inv-1") /\ last.oldID = "inv-1"
    /\ last.newID = "inv-2" /\ ~last.encOK
    /\ last.changed /\ last.err # "nil" /\ OwnerIs(obj, "inv-2")

\* a rewrite of a decodable snapshot happened in the last call
SnapshotRewritten == last.called /\ last.changed /\ last.err = "nil" /\ Decodable(pre)

\* C9 as stated: the rewritten snapshot keeps every annotation the snapshot
\* carried other than the ownership key, and gains no other key
C9_AsStated ==
    SnapshotRewritten =>
        (/\ Decodable(obj)
         /\ \A k \in Keys(SnapshotOf(pre)) \ {key} :
               k \in Keys(SnapshotOf(obj)) /\ SnapshotOf(obj).ann[k] = SnapshotOf(pre).ann[k]
         /\ Keys(SnapshotOf(obj)) \subseteq Keys(SnapshotOf(pre)) \cup {key})

\* C9 amended: the rewritten snapshot keeps the snapshot's content outside
\* the annotations, and its annotations are the live object's annotations
\* with the ownership key set to newID and without the last-applied key
C9_SnapshotTakesLiveAnnotations ==
    SnapshotRewritten =>
        (/\ Decodable(obj)
         /\ SnapshotOf(obj).kind = SnapshotOf(pre).kind
         /\ SnapshotOf(obj).spec = SnapshotOf(pre).spec
         /\ SnapshotOf(obj).hasAnn
         /\ SnapshotOf(obj).ann =
               [k \in (Keys(pre) \cup {key}) \ {LastAppliedConfigAnnotation} |->
                   IF k = key THEN Str(last.newID) ELSE pre.ann[k]])

C9_Witness ==
    /\ SnapshotRewritten /\ Decodable(obj)
    /\ SnapOnlyKey \in Keys(SnapshotOf(pre)) /\ SnapOnlyKey \notin Keys(SnapshotOf(obj))
    /\ LiveOnlyKey \in Keys(pre) /\ LiveOnlyKey \in Keys(SnapshotOf(obj))

\* C10: after a call that returns no error every annotation of the live
\* object other than the ownership and last-applied keys is still there
\* with its value, and no other key is added
C10_LiveFrame ==
    (last.called /\ last.err = "nil")
        => (/\ \A k \in Keys(pre) \ {key, LastAppliedConfigAnnotation} :
                  k \in Keys(obj) /\ obj.ann[k] = pre.ann[k]
            /\ Keys(obj) \subseteq Keys(pre) \cup {key, LastAppliedConfigAnnotation}
            /\ obj.kind = pre.kind /\ obj.spec = pre.spec)

C10_Witness ==
    /\ last.called /\ last.changed /\ last.err = "nil" /\ Decodable(pre)
    /\ LiveOnlyKey \in Keys(pre) /\ LiveOnlyKey \in Keys(obj)
    /\ SnapOnlyKey \in Keys(SnapshotOf(pre)) /\ SnapOnlyKey \notin Keys(obj)
    /\ prev.called

\* the external calls of one kind in a trace
CallsOf(trace, kinds) == {i \in 1..Len(trace) : trace[i].call \in kinds}

\* C7: every Get and Update makes exactly one resolution; when it fails its
\* error is returned and nothing else is called; otherwise exactly one
\* remote call goes to the identity's namespace and resource and its
\* result and error are returned as they are
C7_OneResolutionOneRemoteCall ==
    (acc.op \in {"Get", "Update"}) =>
        /\ Cardinality(CallsOf(acc.trace, {"RESTMapping"})) = 1
        /\ acc.trace[1] = [call |-> "RESTMapping", groupKind |-> acc.meta.GroupKind]
        /\ acc.mapErr # "nil" =>
              /\ CallsOf(acc.trace, {"Get", "Update"}) = {}
              /\ acc.err = acc.mapErr /\ acc.obj = NilObj
        /\ acc.mapErr = "nil" =>
              /\ Cardinality(CallsOf(acc.trace, {"Get", "Update"})) = 1
              /\ Len(acc.trace) = 2
              /\ acc.trace[2].r = [resource |-> MappingResource(acc.meta.GroupKind),
                                   namespace |-> acc.meta.Namespace]
              /\ acc.err = acc.remErr
              /\ acc.op = "Get" =>
                    /\ acc.trace[2].call = "Get" /\ acc.trace[2].name = acc.meta.Name
                    /\ acc.obj = acc.remObj
              /\ acc.op = "Update" =>
                    /\ acc.trace[2].call = "Update" /\ acc.trace[2].obj = acc.rep

C7_Witness ==
    /\ acc.op = "Update" /\ acc.mapErr = "nil" /\ acc.remErr = "conflict"
    /\ Len(acc.trace) = 2 /\ acc.err = "conflict"
    /\ prevAcc.op = "Get" /\ prevAcc.mapErr = "no-match" /\ Len(prevAcc.trace) = 1
    /\ prevAcc.err = "no-match"

\* two Update calls that differ only in options: one nil, one zero-valued
NilAndZeroOptions(a, b) ==
    /\ a.op = "Update" /\ b.op = "Update"
    /\ a.meta = b.meta /\ a.rep = b.rep /\ a.mapErr = b.mapErr /\ a.remErr = b.remErr
    /\ a.options = NilOptions /\ b.options = OptionsPtr(ZeroUpdateOptions)

\* C8: Update with nil options and Update with zero-valued options make
\* the same external calls and return the same error
C8_NilOptionsAreZeroOptions ==
    (NilAndZeroOptions(prevAcc, acc) \/ NilAndZeroOptions(acc, prevAcc))
        => (acc.trace = prevAcc.trace /\ acc.err = prevAcc.err)

C8_Witness ==
    /\ NilAndZeroOptions(prevAcc, acc) /\ acc.mapErr = "nil"
    /\ Len(acc.trace) = 2 /\ acc.trace[2].options = ZeroUpdateOptions
    /\ acc.trace = prevAcc.trace

====
